---- MODULE Spec2Model ----
(***************************************************************************)
(* A model of src/app.py, the analytics back end of the attack-monitoring  *)
(* dashboard: the retry wrapper, the log reader, the anomalous-IP and      *)
(* attack-origin aggregations and the prevention-mode controller.          *)
(*                                                                         *)
(* The handlers keep no state between requests; the state is db.logs,      *)
(* db.config, the remote WAF server and each request's position in its     *)
(* handler.  One specification per group of handlers (SpecAccess,          *)
(* SpecLogs, SpecPoll, SpecPrevention, SpecAnomalous, SpecOrigins) runs    *)
(* those handlers and leaves the other groups' variables at rest.          *)
(***************************************************************************)
EXTENDS Integers, Sequences, FiniteSets, TLC

(***************************************************************************)
(* Bounds of the model and constants of the program.                       *)
(***************************************************************************)
\* Largest max_retries a direct caller of with_retry passes.
MaxRetriesBound == 4
\* with_retry's defaults (max_retries=3, delay=0.5 s, here in milliseconds).
DefaultMaxRetries == 3
DefaultDelayMs == 500
\* Another base delay a direct caller passes, in milliseconds.
OtherDelayMs == 200
\* .limit(100) of fetch_logs.
LogsLimit == 100
\* Distinct timestamps in the log store, and writes to it.
MaxTs == 3
MaxInserts == 2
\* Polls of the client in SpecPoll.
MaxPolls == 3
\* How many requests the prevention-mode handlers serve, concurrently.
NumRequests == 2
\* {"$limit": 15} of get_anomalous_ips.
IpsLimit == 15
\* Groups of IPs written to the store in SpecAnomalous.
MaxBatches == 2
\* [:5] of top_rules in get_attack_origins.
TopRulesLimit == 5
\* Rule identifiers 1..NumRules (in ascending order of the identifier), and
\* flagged records in the store, in SpecOrigins.
NumRules == 6
MaxAttacks == 3

VARIABLES
    \* ---- with_retry's wrapper and the caller that runs it
    caller,        \* "idle", "direct", or the handler being served
    max_retries,   \* the wrapper's max_retries
    delay,         \* the wrapper's delay (ms)
    retries,       \* the wrapper's local `retries`
    calls,         \* how many times func has been invoked
    raised,        \* the exceptions func raised, in order (k: the k-th call's)
    sleeps,        \* the time.sleep durations issued, in order (ms)
    outcome,       \* the wrapper's position, or how it ended
    sinceArg,      \* get_logs' request.args.get('since')
    \* ---- db.logs as the log reader sees it
    logs,          \* how many records carry each timestamp
    inserts,       \* how many times records were written to db.logs
    logsResp,      \* the last response of GET /api/logs
    response,      \* the last response of the timeline / anomalous-ips handler
    \* ---- a client that polls GET /api/logs
    cursor,        \* the `since` the client will pass next
    delivered,     \* how many times each record was returned to the client
    polls,         \* how many polls the client made
    sincePoll,     \* records appended since the last read the client got
    firstSeen,     \* the store's size at the client's first read (NoSince: none)
    lastSeen,      \* the store's size at the client's last read
    \* ---- the prevention-mode controller
    config,        \* db.config's prevention_mode record
    wafEnabled,    \* the flag the remote WAF server holds
    wafUrlBound,   \* whether the global name WAF_API_URL resolves
    lastUpsert,    \* the request whose update_one was applied last (0: none)
    req,           \* the requests being served, by request number
    \* ---- db.logs as get_anomalous_ips sees it
    ipStats,       \* per IP: its records and how many of them are flagged
    batches,       \* how many groups of IPs were written
    \* ---- get_attack_origins
    attacks,       \* the flagged records in the window, in order of arrival
    origin         \* the handler's position, locals and response

wrapVars == <<caller, max_retries, delay, retries, calls, raised, sleeps,
              outcome, sinceArg>>
storeVars == <<logs, inserts>>
respVars == <<logsResp, response>>
pollVars == <<cursor, delivered, polls, sincePoll, firstSeen, lastSeen>>
prevVars == <<config, wafEnabled, wafUrlBound, lastUpsert, req>>
anomVars == <<ipStats, batches>>
origVars == <<attacks, origin>>

vars == <<wrapVars, storeVars, respVars, pollVars, prevVars, anomVars,
          origVars>>

(***************************************************************************)
(* Resilient data access: with_retry.                                      *)
(***************************************************************************)
RECURSIVE Pow2(_)
Pow2(n) == IF n <= 0 THEN 1 ELSE 2 * Pow2(n - 1)

\* request.args.get('since'): absent (None), the empty string, or a
\* timestamp string (a positive number, see the log reader below).
NoSince == -1
EmptySince == 0

\* What a direct caller's func may return.
Values == {<<1>>, <<2>>}

\* time.sleep(delay * (2 ** (retries - 1))), with retries already incremented.
BackoffDelay(d, r) == d * Pow2(r - 1)

\* Mutant of Exhausted: the comparison is off by one, so the wrapper never
\* re-raises.
ExhaustedOffByOne(r, m) == r > m

\* retries == max_retries: the wrapper re-raises instead of sleeping.
Exhausted(r, m) == r = m

\* The wrapper's position: not entered, inside its loop, or ended.
NotRunning == [kind |-> "idle"]
Running == [kind |-> "running"]

WrapIdle ==
    /\ caller = "idle"
    /\ max_retries = 0
    /\ delay = 0
    /\ retries = 0
    /\ calls = 0
    /\ raised = <<>>
    /\ sleeps = <<>>
    /\ outcome = NotRunning
    /\ sinceArg = NoSince

\* wrapper(*args): retries = 0, then the while loop.
EnterWrapper(who, m, d, since) ==
    /\ caller = "idle"
    /\ caller' = who
    /\ max_retries' = m
    /\ delay' = d
    /\ retries' = 0
    /\ calls' = 0
    /\ raised' = <<>>
    /\ sleeps' = <<>>
    /\ outcome' = Running
    /\ sinceArg' = since

\* A caller wraps some operation with explicit max_retries and delay.
CallWithRetry ==
    \E m \in 0..MaxRetriesBound, d \in {DefaultDelayMs, OtherDelayMs} :
        EnterWrapper("direct", m, d, NoSince)

\* One pass of the while loop in which func returns v: `return func(...)`.
\* `read` records the store's content at the time of the call.
AttemptReturns(v) ==
    /\ outcome = Running
    /\ retries < max_retries
    /\ outcome' = [kind |-> "return", none |-> FALSE, value |-> v,
                   attempt |-> calls + 1, read |-> logs]
    /\ calls' = calls + 1
    /\ UNCHANGED <<caller, max_retries, delay, retries, raised, sleeps,
                   sinceArg>>

\* One pass of the while loop in which func raises.
AttemptRaises ==
    /\ outcome = Running
    /\ retries < max_retries
    /\ calls' = calls + 1
    /\ raised' = Append(raised, calls + 1)
    /\ retries' = retries + 1
    /\ IF Exhausted(retries + 1, max_retries)
       THEN /\ outcome' = [kind |-> "raise", exc |-> calls + 1]
            /\ sleeps' = sleeps
       ELSE /\ outcome' = outcome
            /\ sleeps' = Append(sleeps, BackoffDelay(delay, retries + 1))
    /\ UNCHANGED <<caller, max_retries, delay, sinceArg>>

\* The while condition is false (max_retries <= 0, or a loop that never
\* re-raised): the wrapper falls off its end and returns None.
LoopFallsThrough ==
    /\ outcome = Running
    /\ ~(retries < max_retries)
    /\ outcome' = [kind |-> "return", none |-> TRUE, value |-> <<>>,
                   attempt |-> 0, read |-> <<>>]
    /\ UNCHANGED <<caller, max_retries, delay, retries, calls, raised, sleeps,
                   sinceArg>>

\* The direct caller's func returns one of its values.
DirectAttemptReturns ==
    /\ caller = "direct"
    /\ \E v \in Values : AttemptReturns(v)

\* The direct caller takes the wrapper's result; the next call may start.
DirectCallEnds ==
    /\ caller = "direct"
    /\ outcome.kind \notin {"running", "idle"}
    /\ caller' = "idle"
    /\ UNCHANGED <<max_retries, delay, retries, calls, raised, sleeps,
                   outcome, sinceArg>>

(***************************************************************************)
(* The incremental log reader: fetch_logs and get_logs.  A timestamp is    *)
(* the position of its ISO string in lexical order (1, 2, ...); db.logs is *)
(* read here by timestamp alone: logs[t] records carry timestamp t.        *)
(***************************************************************************)
\* `if since:` -- None and '' are falsy.
Truthy(since) == since # NoSince /\ since # EmptySince

\* Mutant of Newer: $gte instead of $gt.
NewerOrEqual(t, since) == t >= since

\* {'timestamp': {'$gt': since}}
Newer(t, since) == t > since

Max(S) == CHOOSE m \in S : \A x \in S : x <= m
Min2(a, b) == IF a <= b THEN a ELSE b

\* The timestamps whose records match fetch_logs' query.
Matches(store, since) ==
    {t \in DOMAIN store :
        store[t] > 0 /\ (IF Truthy(since) THEN Newer(t, since) ELSE TRUE)}

Repeat(t, n) == [i \in 1..n |-> t]

\* The records of S with a timestamp in lo..hi, newest first (by halves).
RECURSIVE Descending(_, _, _, _)
Descending(store, S, lo, hi) ==
    IF lo > hi THEN <<>>
    ELSE IF lo = hi THEN (IF lo \in S THEN Repeat(lo, store[lo]) ELSE <<>>)
    ELSE LET mid == (lo + hi) \div 2
         IN  Descending(store, S, mid + 1, hi) \o Descending(store, S, lo, mid)

\* The records of S with a timestamp in lo..hi, oldest first.
RECURSIVE Ascending(_, _, _, _)
Ascending(store, S, lo, hi) ==
    IF lo > hi THEN <<>>
    ELSE IF lo = hi THEN (IF lo \in S THEN Repeat(lo, store[lo]) ELSE <<>>)
    ELSE LET mid == (lo + hi) \div 2
         IN  Ascending(store, S, lo, mid) \o Ascending(store, S, mid + 1, hi)

\* Mutant of SortedByTimestamp: sort('timestamp', 1), oldest first.
SortedAscending(store, S) == Ascending(store, S, 1, Len(store))

\* .sort('timestamp', -1): the matching records, newest first.
SortedByTimestamp(store, S) == Descending(store, S, 1, Len(store))

\* .limit(n)
Limit(seq, n) == SubSeq(seq, 1, Min2(Len(seq), n))

\* fetch_logs(): find(query).sort('timestamp', -1).limit(100)
FetchLogs(store, since) ==
    Limit(SortedByTimestamp(store, Matches(store, since)), LogsLimit)

\* How many of the records of seq carry timestamp t.
CountIn(seq, t) == Cardinality({i \in 1..Len(seq) : seq[i] = t})

SeqMax(seq) == Max({seq[i] : i \in 1..Len(seq)})

\* response.headers['X-Latest-Timestamp'] = max(log['timestamp'] ...), set
\* only on a non-empty list (<<>>: no header).
LatestTimestamp(found) == IF found = <<>> THEN <<>> ELSE <<SeqMax(found)>>

NotAsked ==
    [status |-> 0, since |-> NoSince, body |-> <<>>, header |-> <<>>,
     read |-> <<>>, failedReads |-> 0]

NoResponse == [handler |-> "none"]

StoreIdle ==
    /\ logs = <<>>
    /\ inserts = 0

RespIdle ==
    /\ logsResp = NotAsked
    /\ response = NoResponse

\* The WAF writes n records with timestamp t into db.logs.
LogsInserted ==
    /\ inserts < MaxInserts
    /\ \E t \in DOMAIN logs, n \in {1, LogsLimit - 1} :
        logs' = [logs EXCEPT ![t] = @ + n]
    /\ inserts' = inserts + 1

\* get_logs: fetch_logs is decorated with @with_retry (the defaults).
GetLogsStart(since) ==
    EnterWrapper("get_logs", DefaultMaxRetries, DefaultDelayMs, since)

\* fetch_logs() returns what the store holds now.
FetchLogsReturns ==
    /\ caller = "get_logs"
    /\ AttemptReturns(FetchLogs(logs, sinceArg))

\* get_logs after fetch_logs(): jsonify([]) for an empty list, the list
\* with its X-Latest-Timestamp, or the 500 of the except clause.
GetLogsRespond ==
    /\ caller = "get_logs"
    /\ outcome.kind \notin {"running", "idle"}
    /\ logsResp' =
         IF outcome.kind = "raise"
         THEN [status |-> 500, since |-> sinceArg, body |-> <<>>,
               header |-> <<>>, read |-> <<>>, failedReads |-> Len(raised)]
         ELSE [status |-> 200, since |-> sinceArg, body |-> outcome.value,
               header |-> LatestTimestamp(outcome.value),
               read |-> outcome.read, failedReads |-> Len(raised)]
    /\ caller' = "idle"
    /\ UNCHANGED <<max_retries, delay, retries, calls, raised, sleeps,
                   outcome, sinceArg>>

\* get_attack_timeline: db.logs.aggregate(pipeline) called once inside
\* try/except; jsonify([]) when it raises.  The buckets are not modelled
\* beyond there being some when the store holds a record.
GetAttackTimeline ==
    \/ response' = [handler |-> "get_attack_timeline", status |-> 200,
                    path |-> "try", failedReads |-> 0,
                    body |-> IF \E t \in DOMAIN logs : logs[t] > 0
                             THEN <<"buckets">> ELSE <<>>]
    \/ response' = [handler |-> "get_attack_timeline", status |-> 200,
                    path |-> "except", failedReads |-> 1, body |-> <<>>]

(***************************************************************************)
(* A client polling GET /api/logs over an append-only store whose          *)
(* timestamps strictly increase.                                           *)
(***************************************************************************)
PollIdle ==
    /\ cursor = NoSince
    /\ delivered = <<>>
    /\ polls = 0
    /\ sincePoll = 0
    /\ firstSeen = NoSince
    /\ lastSeen = 0

\* The WAF appends n records, each with a timestamp greater than every
\* timestamp in the store; at most LogsLimit between two reads the client
\* gets.
LogsAppended ==
    /\ inserts < MaxInserts
    /\ \E n \in {1, LogsLimit - 1, LogsLimit} :
        /\ sincePoll + n <= LogsLimit
        /\ logs' = [t \in 1..(Len(logs) + n) |-> 1]
        /\ delivered' = [t \in 1..(Len(logs) + n) |->
                            IF t <= Len(logs) THEN delivered[t] ELSE 0]
        /\ sincePoll' = sincePoll + n
    /\ inserts' = inserts + 1
    /\ UNCHANGED <<cursor, polls, firstSeen, lastSeen>>

\* The client calls GET /api/logs, passing its cursor if it has one.
ClientPolls ==
    /\ polls < MaxPolls
    /\ GetLogsStart(cursor)
    /\ polls' = polls + 1
    /\ UNCHANGED <<cursor, delivered, sincePoll, firstSeen, lastSeen>>

\* The read of the client's poll.
ClientReadDone ==
    /\ FetchLogsReturns
    /\ sincePoll' = 0
    /\ firstSeen' = IF firstSeen = NoSince THEN Len(logs) ELSE firstSeen
    /\ lastSeen' = Len(logs)
    /\ UNCHANGED <<cursor, delivered, polls>>

\* The client takes the response: it keeps the X-Latest-Timestamp of a
\* non-empty list as its next `since`, and its cursor otherwise.
ClientReceives ==
    /\ GetLogsRespond
    /\ cursor' = IF logsResp'.header = <<>> THEN cursor
                 ELSE logsResp'.header[1]
    /\ delivered' = [t \in DOMAIN delivered |->
                        delivered[t] + CountIn(logsResp'.body, t)]
    /\ UNCHANGED <<polls, sincePoll, firstSeen, lastSeen>>

(***************************************************************************)
(* The prevention-mode controller: get_prevention_mode,                    *)
(* set_prevention_mode and get_status, served by concurrent threads        *)
(* (app.run(threaded=True)) over db.config and the remote WAF server.      *)
(* get_status is modelled as far as it reads the prevention flag.          *)
(***************************************************************************)
Requests == 1..NumRequests

\* request.get_json(): no JSON body, a JSON object without the key, or one
\* with `enabled` set to a JSON value.
NoBody == [json |-> "none"]
EmptyObject == [json |-> "object", has |-> FALSE]
EnabledValues == {"true", "false", "0", "'false'"}
WithEnabled(v) == [json |-> "object", has |-> TRUE, value |-> v]
Bodies == {NoBody, EmptyObject} \cup {WithEnabled(v) : v \in EnabledValues}

\* bool(data['enabled']): false, 0 are falsy, a non-empty string is truthy.
PyBool(v) == v \in {"true", "'false'"}

\* `data is None or 'enabled' not in data`
MissingEnabled(data) == IF data.json = "none" THEN TRUE ELSE ~data.has

NoConfig == [exists |-> FALSE]
ConfigOf(b) == [exists |-> TRUE, enabled |-> b]

\* config['enabled'] if config else False
EnabledOrDefault(c) == IF c.exists THEN c.enabled ELSE FALSE

NoRequest == [kind |-> "none", pc |-> "idle"]
NotAnswered == [status |-> 0]

PrevIdle ==
    /\ config = NoConfig
    /\ wafEnabled = FALSE
    /\ wafUrlBound = FALSE
    /\ lastUpsert = 0
    /\ req = [r \in Requests |-> NoRequest]

\* GET /api/waf/prevention: one find_one, which answers or raises.
GetPreventionMode(r) ==
    /\ req[r].kind = "none"
    /\ \/ req' = [req EXCEPT ![r] =
                    [kind |-> "get", pc |-> "done", after |-> lastUpsert,
                     resp |-> [status |-> 200,
                               enabled |-> EnabledOrDefault(config)]]]
       \/ req' = [req EXCEPT ![r] =
                    [kind |-> "get", pc |-> "done", after |-> lastUpsert,
                     resp |-> [status |-> 500, error |-> "find_one"]]]
    /\ UNCHANGED <<config, wafEnabled, wafUrlBound, lastUpsert>>

\* GET /api/status, as far as the prevention flag goes.
GetStatus(r) ==
    /\ req[r].kind = "none"
    /\ req' = [req EXCEPT ![r] =
                 [kind |-> "status", pc |-> "done", after |-> lastUpsert,
                  resp |-> [status |-> 200,
                            prevention_mode |-> EnabledOrDefault(config)]]]
    /\ UNCHANGED <<config, wafEnabled, wafUrlBound, lastUpsert>>

\* Mutant of SetPreventionMode: the presence check is dropped and the value
\* read with data.get('enabled'), so a body without the key upserts False.
SetPreventionModeUnchecked(r) ==
    /\ req[r].kind = "none"
    /\ \E data \in Bodies :
        \/ /\ data.json = "none"
           /\ req' = [req EXCEPT ![r] =
                        [kind |-> "set", pc |-> "done", body |-> data,
                         upserted |-> FALSE, forward |-> "none",
                         resp |-> [status |-> 500, error |-> "get_json"]]]
           /\ UNCHANGED <<config, lastUpsert>>
        \/ /\ data.json = "object"
           /\ LET b == IF data.has THEN PyBool(data.value) ELSE FALSE IN
              /\ config' = ConfigOf(b)
              /\ lastUpsert' = r
              /\ req' = [req EXCEPT ![r] =
                           [kind |-> "set", pc |-> "forward", body |-> data,
                            enabled |-> b,
                            upserted |-> TRUE, forward |-> "none",
                            resp |-> NotAnswered]]
    /\ UNCHANGED <<wafEnabled, wafUrlBound>>

\* POST /api/waf/prevention up to and including db.config.update_one.
SetPreventionMode(r) ==
    /\ req[r].kind = "none"
    /\ \E data \in Bodies :
        \/ \* get_json() raises on a request without a JSON body (-> 500)
           /\ data.json = "none"
           /\ req' = [req EXCEPT ![r] =
                        [kind |-> "set", pc |-> "done", body |-> data,
                         upserted |-> FALSE, forward |-> "none",
                         resp |-> [status |-> 500, error |-> "get_json"]]]
           /\ UNCHANGED <<config, lastUpsert>>
        \/ \* the 400 of line 67
           /\ MissingEnabled(data)
           /\ req' = [req EXCEPT ![r] =
                        [kind |-> "set", pc |-> "done", body |-> data,
                         upserted |-> FALSE, forward |-> "none",
                         resp |-> [status |-> 400,
                                   error |-> "Missing enabled parameter"]]]
           /\ UNCHANGED <<config, lastUpsert>>
        \/ \* update_one applies the upsert
           /\ ~MissingEnabled(data)
           /\ config' = ConfigOf(PyBool(data.value))
           /\ lastUpsert' = r
           /\ req' = [req EXCEPT ![r] =
                        [kind |-> "set", pc |-> "forward", body |-> data,
                         enabled |-> PyBool(data.value),
                         upserted |-> TRUE, forward |-> "none",
                         resp |-> NotAnswered]]
        \/ \* update_one raises: the outer except answers 500
           /\ ~MissingEnabled(data)
           /\ req' = [req EXCEPT ![r] =
                        [kind |-> "set", pc |-> "done", body |-> data,
                         enabled |-> PyBool(data.value),
                         upserted |-> FALSE, forward |-> "none",
                         resp |-> [status |-> 500, error |-> "update_one"]]]
           /\ UNCHANGED <<config, lastUpsert>>
    /\ UNCHANGED <<wafEnabled, wafUrlBound>>

\* How requests.post(...) / raise_for_status() can end, and whether the WAF
\* server took the new value.  All failures are RequestExceptions.
ForwardOutcomes ==
    { [result |-> "ok",               applied |-> TRUE],
      [result |-> "http_error",       applied |-> FALSE],
      [result |-> "timeout",          applied |-> FALSE],
      [result |-> "timeout",          applied |-> TRUE],
      [result |-> "connection_error", applied |-> FALSE] }

\* The response after the forwarding try/except (lines 90-93).
SuccessResponse(b) == [status |-> 200, enabled |-> b, result |-> "success"]

\* Lines 79-93: the forwarding step and the response.
ForwardToWaf(r) ==
    /\ req[r].kind = "set"
    /\ req[r].pc = "forward"
    /\ \/ \* f"{WAF_API_URL}/..." raises NameError, which is no
          \* RequestException: the outer except answers 500
          /\ ~wafUrlBound
          /\ req' = [req EXCEPT ![r].pc = "done",
                                ![r].forward = "name_error",
                                ![r].resp = [status |-> 500,
                                             error |-> "NameError"]]
          /\ UNCHANGED wafEnabled
       \/ /\ wafUrlBound
          /\ \E o \in ForwardOutcomes :
               /\ wafEnabled' = IF o.applied THEN req[r].enabled
                                ELSE wafEnabled
               /\ req' = [req EXCEPT ![r].pc = "done",
                                     ![r].forward = o.result,
                                     ![r].resp = SuccessResponse(req[r].enabled)]
    /\ UNCHANGED <<config, wafUrlBound, lastUpsert>>

(***************************************************************************)
(* get_anomalous_ips.  db.logs is read here by `ip` and                    *)
(* `analysis_result.injection_detected` alone: ipStats[i] holds IP i's     *)
(* number of records and how many of them are flagged.  last_detected and  *)
(* matched_rules of an entry are not modelled.                             *)
(***************************************************************************)
AnomIdle ==
    /\ ipStats = <<>>
    /\ batches = 0

\* What the WAF may have logged for one IP: its number of records and how
\* many of them are flagged.
Profiles ==
    {[total |-> 1, anomalous |-> 0], [total |-> 1, anomalous |-> 1],
     [total |-> 2, anomalous |-> 1], [total |-> 3, anomalous |-> 1],
     [total |-> 3, anomalous |-> 3]}

\* The WAF logs the requests of n new IPs, all of one profile.
IpsLogged ==
    /\ batches < MaxBatches
    /\ \E n \in {1, IpsLimit}, p \in Profiles :
        ipStats' = ipStats \o [i \in 1..n |-> p]
    /\ batches' = batches + 1

\* Mutant of HasAnomalous: {"$gte": 0}.
HasAnomalousOrNone(a) == a >= 0

\* {"$match": {"anomalous_requests": {"$gt": 0}}}
HasAnomalous(a) == a > 0

\* {"$multiply": [{"$divide": [anomalous, total]}, 100]}, kept as the exact
\* fraction num / den.
ThreatLevel(a, t) == [num |-> a * 100, den |-> t]

Higher(x, y) == x.num * y.den > y.num * x.den

\* The $group, $match and $project stages: one entry per IP with a flagged
\* record.
ThreatEntries(stats) ==
    [ip \in {i \in DOMAIN stats : HasAnomalous(stats[i].anomalous)} |->
        [ip |-> ip,
         total_requests |-> stats[ip].total,
         anomalous_requests |-> stats[ip].anomalous,
         threat_level |-> ThreatLevel(stats[ip].anomalous, stats[ip].total)]]

\* The orders in which the engine may leave entries of equal threat_level
\* ($sort promises none): here by IP, ascending or descending.
TieOrders == {"ascending", "descending"}

\* Whether entry x comes before entry y under {"$sort": {"threat_level": -1}}.
SortsBefore(x, y, tie) ==
    \/ Higher(x.threat_level, y.threat_level)
    \/ /\ ~Higher(y.threat_level, x.threat_level)
       /\ IF tie = "ascending" THEN x.ip < y.ip ELSE x.ip > y.ip

\* Two sorted runs of entries merged into one.
RECURSIVE Merge(_, _, _)
Merge(xs, ys, tie) ==
    IF xs = <<>> THEN ys
    ELSE IF ys = <<>> THEN xs
    ELSE IF SortsBefore(Head(ys), Head(xs), tie)
         THEN <<Head(ys)>> \o Merge(xs, Tail(ys), tie)
         ELSE <<Head(xs)>> \o Merge(Tail(xs), ys, tie)

\* {"$sort": {"threat_level": -1}} over the entries of the IPs lo..hi.
RECURSIVE SortByThreatLevel(_, _, _, _)
SortByThreatLevel(entries, lo, hi, tie) ==
    IF lo > hi THEN <<>>
    ELSE IF lo = hi
         THEN (IF lo \in DOMAIN entries THEN <<entries[lo]>> ELSE <<>>)
    ELSE LET mid == (lo + hi) \div 2
         IN  Merge(SortByThreatLevel(entries, lo, mid, tie),
                   SortByThreatLevel(entries, mid + 1, hi, tie), tie)

\* list(db.logs.aggregate(pipeline)) with its $sort and {"$limit": 15}.
AnomalousIps(stats, tie) ==
    Limit(SortByThreatLevel(ThreatEntries(stats), 1, Len(stats), tie),
          IpsLimit)

\* get_anomalous_ips: the aggregate called once inside try/except;
\* jsonify([]) when it raises.  `read` records the store's content.
GetAnomalousIps ==
    \/ \E tie \in TieOrders :
        response' = [handler |-> "get_anomalous_ips", status |-> 200,
                     path |-> "try", failedReads |-> 0,
                     body |-> AnomalousIps(ipStats, tie), read |-> ipStats]
    \/ response' = [handler |-> "get_anomalous_ips", status |-> 200,
                    path |-> "except", failedReads |-> 1,
                    body |-> <<>>, read |-> ipStats]

(***************************************************************************)
(* get_attack_origins.  `attacks` holds the flagged records inside the     *)
(* window, oldest first; a record's timestamp is its position.             *)
(***************************************************************************)
OriginIps == {"a", "b", "c"}

\* geo.country.name in the GeoLite2 database ("": the record has no name).
GeoName(ip) == IF ip = "c" THEN "" ELSE "DE"

\* geo.country.name or 'Unknown'
CountryOf(name) == IF name = "" THEN "Unknown" ELSE name

Rules == 1..NumRules

\* analysis_result.matched_rules of a flagged record.
RuleLists == {<<1>>, <<2, 1>>, [i \in 1..NumRules |-> NumRules + 1 - i]}

OriginIdle == [pc |-> "idle"]

OrigIdle ==
    /\ attacks = <<>>
    /\ origin = OriginIdle

\* The WAF logs a flagged request.
AttackLogged ==
    /\ origin.pc = "idle"
    /\ Len(attacks) < MaxAttacks
    /\ \E ip \in OriginIps, rules \in RuleLists :
        attacks' = Append(attacks, [ip |-> ip, rules |-> rules])
    /\ UNCHANGED origin

\* The $match and $group stages: per IP its number of flagged records, its
\* newest timestamp and the set ($addToSet) of its distinct rule lists.
GroupByIp(att) ==
    [ip \in {att[i].ip : i \in 1..Len(att)} |->
        LET mine == {i \in 1..Len(att) : att[i].ip = ip}
        IN  [attack_count |-> Cardinality(mine),
             last_attack |-> Max(mine),
             matched_rules |-> {att[i].rules : i \in mine}]]

\* The orders in which a set may be iterated.
Orderings(S) ==
    {s \in [1..Cardinality(S) -> S] :
        \A i, j \in 1..Cardinality(S) : i # j => s[i] # s[j]}

RECURSIVE Flatten(_)
Flatten(lists) ==
    IF lists = <<>> THEN <<>> ELSE Head(lists) \o Flatten(Tail(lists))

NoStats ==
    [attack_count |-> 0, unique_ips |-> {}, last_attack |-> 0,
     common_rules |-> <<>>, rule_order |-> <<>>]

\* country_stats["common_rules"][rule] += 1 for each rule of seq, in order;
\* rule_order is the dict's insertion order.
RECURSIVE CountRules(_, _)
CountRules(stats, seq) ==
    IF seq = <<>> THEN stats
    ELSE LET r == Head(seq)
             seen == r \in DOMAIN stats.common_rules
             counted ==
                 [stats EXCEPT
                    !.common_rules =
                        [q \in DOMAIN stats.common_rules \cup {r} |->
                            IF q = r
                            THEN (IF seen THEN stats.common_rules[r] ELSE 0) + 1
                            ELSE stats.common_rules[q]],
                    !.rule_order = IF seen THEN @ ELSE Append(@, r)]
         IN  CountRules(counted, Tail(seq))

\* The body of the loop after reader.city(ip) returned (lines 368-380).
Accumulate(stats, ip, row, lists) ==
    CountRules(
        [stats EXCEPT
            !.attack_count = @ + row.attack_count,
            !.unique_ips = @ \cup {ip},
            !.last_attack = IF @ = 0 \/ row.last_attack > @
                            THEN row.last_attack ELSE @],
        Flatten(lists))

\* sorted(common_rules.items(), key=count, reverse=True)[:5]: a stable
\* sort, so rules of equal count stay in insertion order.
TopRules(stats) ==
    LET order == stats.rule_order
        count(k) == stats.common_rules[order[k]]
        pos(k) == 1 + Cardinality({j \in 1..Len(order) :
                        count(j) > count(k) \/ (count(j) = count(k) /\ j < k)})
        sorted == [p \in 1..Len(order) |->
                     LET k == CHOOSE k \in 1..Len(order) : pos(k) = p
                     IN  [rule |-> order[k], count |-> count(k)]]
    IN  Limit(sorted, TopRulesLimit)

\* One entry of response_data; rep is the IP whose coordinates are looked up.
CountryEntry(country, stats, rep) ==
    [country |-> country,
     attack_count |-> stats.attack_count,
     unique_ips |-> Cardinality(stats.unique_ips),
     last_attack |-> stats.last_attack,
     latitude |-> <<"latitude", rep>>,
     longitude |-> <<"longitude", rep>>,
     top_attack_types |-> TopRules(stats)]

\* response_data.sort(key=attack_count, reverse=True): stable.
SortByAttackCount(entries) ==
    LET pos(k) == 1 + Cardinality({j \in 1..Len(entries) :
                        \/ entries[j].attack_count > entries[k].attack_count
                        \/ /\ entries[j].attack_count = entries[k].attack_count
                           /\ j < k})
    IN  [p \in 1..Len(entries) |->
            entries[CHOOSE k \in 1..Len(entries) : pos(k) = p]]

\* Lines 328-351: the aggregate returns, or raises (-> the outer 500).
GetAttackOriginsStart ==
    /\ origin.pc = "idle"
    /\ \/ origin' = [pc |-> "loop",
                     results |-> GroupByIp(attacks),
                     pending |-> {attacks[i].ip : i \in 1..Len(attacks)},
                     countries |-> <<>>,
                     order |-> <<>>,
                     skipped |-> {},
                     resp |-> [status |-> 0]]
       \/ origin' = [pc |-> "done",
                     results |-> <<>>, pending |-> {}, countries |-> <<>>,
                     order |-> <<>>, skipped |-> {},
                     resp |-> [status |-> 500, error |-> "aggregate"]]
    /\ UNCHANGED attacks

\* One pass of `for result in results` (the engine's order of the groups
\* is any): reader.city(ip) raises and the IP is skipped, or the country's
\* statistics are updated, the rule lists taken in any order.
ResolveIp ==
    /\ origin.pc = "loop"
    /\ \E ip \in origin.pending :
        \/ origin' = [origin EXCEPT !.pending = @ \ {ip},
                                    !.skipped = @ \cup {ip}]
        \/ \E lists \in Orderings(origin.results[ip].matched_rules) :
            LET country == CountryOf(GeoName(ip))
                known == country \in DOMAIN origin.countries
                stats == IF known THEN origin.countries[country] ELSE NoStats
            IN  origin' =
                  [origin EXCEPT
                     !.pending = @ \ {ip},
                     !.countries =
                        [c \in DOMAIN origin.countries \cup {country} |->
                            IF c = country
                            THEN Accumulate(stats, ip, origin.results[ip], lists)
                            ELSE origin.countries[c]],
                     !.order = IF known THEN @ ELSE Append(@, country)]
    /\ UNCHANGED attacks

\* Lines 386-409: the response is formatted, each country's coordinates
\* read with reader.city(list(unique_ips)[0]) outside any try: a lookup
\* that raises ends in the outer except (500).
FormatResponse ==
    /\ origin.pc = "loop"
    /\ origin.pending = {}
    /\ \/ \E rep \in [DOMAIN origin.countries -> OriginIps] :
            /\ \A c \in DOMAIN origin.countries :
                  rep[c] \in origin.countries[c].unique_ips
            /\ origin' =
                 [origin EXCEPT
                    !.pc = "done",
                    !.resp =
                       [status |-> 200,
                        body |-> SortByAttackCount(
                           [k \in 1..Len(origin.order) |->
                               CountryEntry(origin.order[k],
                                            origin.countries[origin.order[k]],
                                            rep[origin.order[k]])])]]
       \/ /\ origin.order # <<>>
          /\ origin' = [origin EXCEPT
                          !.pc = "done",
                          !.resp = [status |-> 500, error |-> "reader.city"]]
    /\ UNCHANGED attacks

(***************************************************************************)
(* The specifications.                                                     *)
(***************************************************************************)
\* with_retry called directly, and the three handlers that read db.logs,
\* over a store that is empty or holds one record.
InitAccess ==
    /\ WrapIdle /\ RespIdle /\ PollIdle /\ PrevIdle /\ OrigIdle
    /\ logs \in {<<0>>, <<1>>}
    /\ inserts = 0
    /\ ipStats \in {<<>>, <<[total |-> 2, anomalous |-> 1]>>}
    /\ batches = 0

NextAccess ==
    \/ CallWithRetry
        /\ UNCHANGED <<storeVars, respVars, pollVars, prevVars, anomVars, origVars>>
    \/ DirectAttemptReturns
        /\ UNCHANGED <<storeVars, respVars, pollVars, prevVars, anomVars, origVars>>
    \/ AttemptRaises
        /\ UNCHANGED <<storeVars, respVars, pollVars, prevVars, anomVars, origVars>>
    \/ LoopFallsThrough
        /\ UNCHANGED <<storeVars, respVars, pollVars, prevVars, anomVars, origVars>>
    \/ DirectCallEnds
        /\ UNCHANGED <<storeVars, respVars, pollVars, prevVars, anomVars, origVars>>
    \/ (\E since \in {NoSince} \cup DOMAIN logs : GetLogsStart(since))
        /\ UNCHANGED <<storeVars, respVars, pollVars, prevVars, anomVars, origVars>>
    \/ FetchLogsReturns
        /\ UNCHANGED <<storeVars, respVars, pollVars, prevVars, anomVars, origVars>>
    \/ GetLogsRespond
        /\ UNCHANGED <<storeVars, response, pollVars, prevVars, anomVars, origVars>>
    \/ GetAttackTimeline
        /\ UNCHANGED <<wrapVars, storeVars, logsResp, pollVars, prevVars, anomVars, origVars>>
    \/ GetAnomalousIps
        /\ UNCHANGED <<wrapVars, storeVars, logsResp, pollVars, prevVars, anomVars, origVars>>

SpecAccess == InitAccess /\ [][NextAccess]_vars

\* get_logs over a store written to by the WAF, with any `since`.
InitLogs ==
    /\ WrapIdle /\ RespIdle /\ PollIdle /\ PrevIdle /\ AnomIdle /\ OrigIdle
    /\ logs = [t \in 1..MaxTs |-> 0]
    /\ inserts = 0

NextLogs ==
    \/ LogsInserted
        /\ UNCHANGED <<wrapVars, respVars, pollVars, prevVars, anomVars, origVars>>
    \/ (\E since \in {NoSince, EmptySince} \cup DOMAIN logs : GetLogsStart(since))
        /\ UNCHANGED <<storeVars, respVars, pollVars, prevVars, anomVars, origVars>>
    \/ FetchLogsReturns
        /\ UNCHANGED <<storeVars, respVars, pollVars, prevVars, anomVars, origVars>>
    \/ AttemptRaises
        /\ UNCHANGED <<storeVars, respVars, pollVars, prevVars, anomVars, origVars>>
    \/ GetLogsRespond
        /\ UNCHANGED <<storeVars, response, pollVars, prevVars, anomVars, origVars>>

SpecLogs == InitLogs /\ [][NextLogs]_vars

\* A polling client over an append-only store that starts empty, with two
\* records, or with more than one page of them.
InitPoll ==
    /\ WrapIdle /\ RespIdle /\ PrevIdle /\ AnomIdle /\ OrigIdle
    /\ \E n \in {0, 2, LogsLimit + 1} :
        /\ logs = [t \in 1..n |-> 1]
        /\ delivered = [t \in 1..n |-> 0]
    /\ inserts = 0
    /\ cursor = NoSince
    /\ polls = 0
    /\ sincePoll = 0
    /\ firstSeen = NoSince
    /\ lastSeen = 0

NextPoll ==
    \/ LogsAppended
        /\ UNCHANGED <<wrapVars, respVars, prevVars, anomVars, origVars>>
    \/ ClientPolls
        /\ UNCHANGED <<storeVars, respVars, prevVars, anomVars, origVars>>
    \/ ClientReadDone
        /\ UNCHANGED <<storeVars, respVars, prevVars, anomVars, origVars>>
    \/ AttemptRaises
        /\ UNCHANGED <<storeVars, respVars, pollVars, prevVars, anomVars, origVars>>
    \/ ClientReceives
        /\ UNCHANGED <<storeVars, response, prevVars, anomVars, origVars>>

SpecPoll == InitPoll /\ [][NextPoll]_vars

\* app.py never assigns WAF_API_URL: the lookup at line 81 resolves only in
\* a process that has put the name into the module's globals.  Run as it
\* is, the module is the unbound case.
InitPrevention ==
    /\ WrapIdle /\ StoreIdle /\ RespIdle /\ PollIdle /\ AnomIdle /\ OrigIdle
    /\ config \in {NoConfig, ConfigOf(FALSE), ConfigOf(TRUE)}
    /\ wafEnabled \in BOOLEAN
    /\ wafUrlBound \in BOOLEAN
    /\ lastUpsert = 0
    /\ req = [r \in Requests |-> NoRequest]

NextPrevention ==
    \/ (\E r \in Requests : GetPreventionMode(r))
        /\ UNCHANGED <<wrapVars, storeVars, respVars, pollVars, anomVars, origVars>>
    \/ (\E r \in Requests : GetStatus(r))
        /\ UNCHANGED <<wrapVars, storeVars, respVars, pollVars, anomVars, origVars>>
    \/ (\E r \in Requests : SetPreventionMode(r))
        /\ UNCHANGED <<wrapVars, storeVars, respVars, pollVars, anomVars, origVars>>
    \/ (\E r \in Requests : ForwardToWaf(r))
        /\ UNCHANGED <<wrapVars, storeVars, respVars, pollVars, anomVars, origVars>>

SpecPrevention == InitPrevention /\ [][NextPrevention]_vars

\* get_anomalous_ips over a store the WAF writes groups of IPs to.
InitAnomalous ==
    /\ WrapIdle /\ StoreIdle /\ RespIdle /\ PollIdle /\ PrevIdle /\ OrigIdle
    /\ AnomIdle

NextAnomalous ==
    \/ IpsLogged
        /\ UNCHANGED <<wrapVars, storeVars, respVars, pollVars, prevVars, origVars>>
    \/ GetAnomalousIps
        /\ UNCHANGED <<wrapVars, storeVars, logsResp, pollVars, prevVars, anomVars, origVars>>

SpecAnomalous == InitAnomalous /\ [][NextAnomalous]_vars

\* get_attack_origins over the flagged records the WAF has logged.
InitOrigins ==
    /\ WrapIdle /\ StoreIdle /\ RespIdle /\ PollIdle /\ PrevIdle /\ AnomIdle
    /\ OrigIdle

NextOrigins ==
    \/ AttackLogged
        /\ UNCHANGED <<wrapVars, storeVars, respVars, pollVars, prevVars, anomVars>>
    \/ GetAttackOriginsStart
        /\ UNCHANGED <<wrapVars, storeVars, respVars, pollVars, prevVars, anomVars>>
    \/ ResolveIp
        /\ UNCHANGED <<wrapVars, storeVars, respVars, pollVars, prevVars, anomVars>>
    \/ FormatResponse
        /\ UNCHANGED <<wrapVars, storeVars, respVars, pollVars, prevVars, anomVars>>

SpecOrigins == InitOrigins /\ [][NextOrigins]_vars

(***************************************************************************)
(* Claims about the prevention-mode controller.                            *)
(***************************************************************************)
\* C1: a valid set(enabled=v) whose upsert succeeded answers success with
\* enabled=v whatever the forwarding step does, the persisted flag is v
\* until another set writes it, and a get that reads after it returns v.
C1_SetIndependentOfForwarding ==
    /\ \A r \in Requests :
        (req[r].kind = "set" /\ req[r].pc = "done" /\ req[r].upserted) =>
            /\ req[r].resp = SuccessResponse(req[r].enabled)
            /\ (lastUpsert = r => config = ConfigOf(req[r].enabled))
    /\ \A g \in Requests :
        (req[g].kind = "get" /\ req[g].after # 0 /\ req[g].resp.status = 200) =>
            req[g].resp.enabled = req[req[g].after].enabled

InvalidSetRejected ==
    \A r \in Requests :
        (req[r].kind = "set" /\ MissingEnabled(req[r].body)) =>
            /\ req[r].pc = "done"
            /\ req[r].resp.status \in {400, 500}
            /\ (req[r].body = EmptyObject => req[r].resp.status = 400)
            /\ ~req[r].upserted
            /\ req[r].forward = "none"

\* A step that changes the config record, or the WAF server's flag, is a
\* step of a set() whose body carries `enabled`.
ChangedOnlyByValidSet ==
    /\ config' # config =>
         \E r \in Requests :
            /\ req[r].kind = "none"
            /\ req'[r].kind = "set"
            /\ ~MissingEnabled(req'[r].body)
            /\ config' = ConfigOf(PyBool(req'[r].body.value))
    /\ wafEnabled' # wafEnabled =>
         \E r \in Requests :
            /\ req[r].kind = "set"
            /\ req[r].pc = "forward"
            /\ ~MissingEnabled(req[r].body)

\* C8: a set() without `enabled` (or without a JSON body) yields an error
\* response, leaves the config record as it was and makes no call to the WAF
\* server; the config record changes only in a set() with valid input.
C8_InvalidSetChangesNothing ==
    []InvalidSetRejected /\ [][ChangedOnlyByValidSet]_vars

\* C8's case: a set() with body {} has been answered while a config record
\* written by an earlier valid set() exists.
C8_Witness ==
    \E r, q \in Requests :
        /\ req[r].kind = "set" /\ req[r].body = EmptyObject
        /\ req[r].pc = "done"
        /\ lastUpsert = q /\ config = ConfigOf(TRUE)

(***************************************************************************)
(* Claims about resilient data access.                                     *)
(***************************************************************************)
\* C2: for max_retries >= 1 the wrapper invokes func at most max_retries
\* times, returns the first success without a further attempt, re-raises
\* the last failure once all attempts failed (never returning None), and
\* sleeps delay * 2^(k-1) before the k-th retry and not after the last
\* failure.
C2_WithRetryContract ==
    (max_retries >= 1 /\ outcome.kind # "idle") =>
        /\ calls <= max_retries
        /\ \A k \in 1..Len(sleeps) : sleeps[k] = delay * Pow2(k - 1)
        /\ \A k \in 1..Len(raised) : raised[k] = k
        /\ outcome.kind = "running" =>
              /\ Len(raised) = calls
              /\ Len(sleeps) = calls
              /\ calls < max_retries
        /\ outcome.kind = "return" =>
              /\ ~outcome.none
              /\ outcome.attempt = calls
              /\ Len(raised) = calls - 1
              /\ Len(sleeps) = calls - 1
        /\ outcome.kind = "raise" =>
              /\ calls = max_retries
              /\ Len(raised) = max_retries
              /\ outcome.exc = raised[max_retries]
              /\ Len(sleeps) = max_retries - 1

\* C2's case: three attempts failed under the defaults and the wrapper
\* re-raised the third failure after sleeping 0.5 s and 1 s.
C2_Witness ==
    /\ outcome.kind = "raise"
    /\ max_retries = DefaultMaxRetries
    /\ sleeps = <<DefaultDelayMs, 2 * DefaultDelayMs>>

\* C3: the logs, attack-timeline and anomalous-ips handlers produce their
\* failure outcome (the 500 of get_logs, the empty list of the other two)
\* only after all three attempts to read the store failed.
C3_FailureOnlyAfterAllAttempts ==
    /\ logsResp.status = 500 => logsResp.failedReads = DefaultMaxRetries
    /\ (response.handler # "none" /\ response.path = "except") =>
          response.failedReads = DefaultMaxRetries

(***************************************************************************)
(* Claims about the log reader.                                            *)
(***************************************************************************)
\* How many records of the store carry a timestamp of S.
RECURSIVE SumCounts(_, _)
SumCounts(store, S) ==
    IF S = {} THEN 0
    ELSE LET t == CHOOSE x \in S : TRUE
         IN  store[t] + SumCounts(store, S \ {t})

\* C6: a read returns only records newer than `since` (all records count
\* when it is omitted), at most 100 of them, newest first, and they are the
\* most recent matching ones: no omitted matching record is newer than a
\* returned one.
C6_ReadReturnsNewestMatching ==
    logsResp.status = 200 =>
        LET s == logsResp.since
            b == logsResp.body
            store == logsResp.read
            matching(t) == store[t] > 0 /\ (s \in DOMAIN store => t > s)
            total == SumCounts(store, {t \in DOMAIN store : matching(t)})
        IN  /\ Len(b) <= LogsLimit
            /\ Len(b) = Min2(LogsLimit, total)
            /\ \A i \in 1..Len(b) : b[i] \in DOMAIN store /\ matching(b[i])
            /\ \A i \in 1..(Len(b) - 1) : b[i] >= b[i + 1]
            /\ \A t \in DOMAIN store :
                  /\ CountIn(b, t) <= store[t]
                  /\ (matching(t) /\ CountIn(b, t) < store[t]) =>
                        \A i \in 1..Len(b) : t <= b[i]

\* C6's case: a read with a cursor over a store holding more than 100
\* matching records returned exactly 100, leaving out older ones.
C6_Witness ==
    /\ logsResp.status = 200
    /\ logsResp.since \in DOMAIN logsResp.read
    /\ Len(logsResp.body) = LogsLimit
    /\ \E t \in DOMAIN logsResp.read :
          t > logsResp.since /\ CountIn(logsResp.body, t) < logsResp.read[t]

C9_ThreatEntriesRanked ==
    (response.handler = "get_anomalous_ips" /\ response.path = "try") =>
        LET b == response.body
            st == response.read
            returned == {b[i].ip : i \in 1..Len(b)}
            flagged == {ip \in DOMAIN st : st[ip].anomalous > 0}
        IN  /\ Len(b) <= IpsLimit
            /\ Len(b) = Min2(IpsLimit, Cardinality(flagged))
            /\ Cardinality(returned) = Len(b)
            /\ \A i \in 1..Len(b) :
                  /\ b[i].ip \in DOMAIN st
                  /\ b[i].total_requests = st[b[i].ip].total
                  /\ b[i].anomalous_requests = st[b[i].ip].anomalous
                  /\ b[i].anomalous_requests > 0
                  /\ b[i].anomalous_requests <= b[i].total_requests
                  /\ b[i].threat_level.num * b[i].total_requests
                        = 100 * b[i].anomalous_requests * b[i].threat_level.den
                  /\ b[i].threat_level.den > 0
                  /\ b[i].threat_level.num > 0
                  /\ b[i].threat_level.num <= 100 * b[i].threat_level.den
            /\ \A i \in 1..(Len(b) - 1) :
                  b[i].threat_level.num * b[i + 1].threat_level.den
                     >= b[i + 1].threat_level.num * b[i].threat_level.den
            /\ \A ip \in DOMAIN st \ returned :
                  \/ st[ip].anomalous = 0
                  \/ \A i \in 1..Len(b) :
                        100 * st[ip].anomalous * b[i].threat_level.den
                           <= b[i].threat_level.num * st[ip].total

\* C9's case: more than 15 IPs have flagged records, so the cap leaves one
\* out, and an IP without flagged records is in the store too.
C9_Witness ==
    /\ response.handler = "get_anomalous_ips"
    /\ response.path = "try"
    /\ Len(response.body) = IpsLimit
    /\ \E ip \in DOMAIN response.read :
          /\ response.read[ip].anomalous > 0
          /\ \A i \in 1..Len(response.body) : response.body[i].ip # ip
          /\ \E i \in 1..Len(response.body) :
                Higher(response.body[i].threat_level,
                       ThreatLevel(response.read[ip].anomalous,
                                   response.read[ip].total))

(***************************************************************************)
(* Claims about the attack-origin aggregation.                             *)
(***************************************************************************)
RECURSIVE SumOver(_, _)
SumOver(f, S) ==
    IF S = {} THEN 0
    ELSE LET x == CHOOSE x \in S : TRUE IN f[x] + SumOver(f, S \ {x})

\* The IPs whose records count for a country: resolved in the loop.
Contributing(country) ==
    {ip \in DOMAIN origin.results :
        ip \notin origin.skipped /\ CountryOf(GeoName(ip)) = country}

\* C4: no GeoIP failure turns the request into an error; an IP whose
\* resolution failed in the loop contributes to no country while the other
\* IPs are all accumulated; a failed lookup of a country's coordinates
\* leaves the country's entry in place.
C4_GeoFailuresNeverFatal ==
    (origin.pc = "done" /\ DOMAIN origin.results # {}) =>
        /\ origin.resp.status = 200
        /\ LET b == origin.resp.body
           IN  /\ {b[i].country : i \in 1..Len(b)}
                     = {CountryOf(GeoName(ip)) :
                           ip \in DOMAIN origin.results \ origin.skipped}
               /\ \A i \in 1..Len(b) :
                     LET ips == Contributing(b[i].country)
                     IN  /\ b[i].unique_ips = Cardinality(ips)
                         /\ b[i].attack_count =
                               SumOver([ip \in ips |->
                                   origin.results[ip].attack_count], ips)
                         /\ b[i].last_attack =
                               Max({origin.results[ip].last_attack : ip \in ips})

\* The part of C4 about the loop alone: in every response that is not an
\* error, skipped IPs count for nothing and all others are accumulated.
LoopSkipsFailedIps ==
    (origin.pc = "done" /\ origin.resp.status = 200) =>
        LET b == origin.resp.body
        IN  /\ {b[i].country : i \in 1..Len(b)}
                  = {CountryOf(GeoName(ip)) :
                        ip \in DOMAIN origin.results \ origin.skipped}
            /\ \A i \in 1..Len(b) :
                  LET ips == Contributing(b[i].country)
                  IN  /\ b[i].unique_ips = Cardinality(ips)
                      /\ b[i].attack_count =
                            SumOver([ip \in ips |->
                                origin.results[ip].attack_count], ips)
                      /\ b[i].last_attack =
                            Max({origin.results[ip].last_attack : ip \in ips})

\* How often rule r occurs over the flagged records of the IPs of S.
Occurrences(r, S) ==
    Cardinality({<<i, k>> \in (1..Len(attacks)) \X (1..NumRules) :
                    /\ attacks[i].ip \in S
                    /\ k <= Len(attacks[i].rules)
                    /\ attacks[i].rules[k] = r})

\* The rules of S's records by occurrences descending, then by rule
\* identifier ascending, cut to five.
ExpectedTop(S) ==
    LET seen == {r \in Rules : Occurrences(r, S) > 0}
        pos(r) == 1 + Cardinality({q \in seen :
                        \/ Occurrences(q, S) > Occurrences(r, S)
                        \/ (Occurrences(q, S) = Occurrences(r, S) /\ q < r)})
        sorted == [p \in 1..Cardinality(seen) |->
                     LET r == CHOOSE r \in seen : pos(r) = p
                     IN  [rule |-> r, count |-> Occurrences(r, S)]]
    IN  Limit(sorted, TopRulesLimit)

\* C7: a country's top_attack_types are the (at most 5) most frequent rule
\* identifiers over all flagged records attributed to it, each occurrence
\* in each record counted, by count descending and rule identifier
\* ascending.
C7_TopRulesByOccurrence ==
    (origin.pc = "done" /\ origin.resp.status = 200) =>
        \A i \in 1..Len(origin.resp.body) :
            origin.resp.body[i].top_attack_types
                = ExpectedTop(Contributing(origin.resp.body[i].country))

====
